---- MODULE Spec2Model ----
(***************************************************************************)
(* Proxy balancer of config.py: the proxy registry (_proxy_list,           *)
(* _proxy_stats), the usage ledger and selection policy (ProxyBalancer),   *)
(* the usage reporter (record_proxy_usage), forced rotation (rotate_proxy) *)
(* and the statistics snapshot (get_proxy_stats); and the two HTTP helpers *)
(* that call them, make_request_with_retry of analysis.py and              *)
(* make_request_with_proxy of coingecko.py.                                *)
(*                                                                         *)
(* Time is the integer number of seconds returned by time.time(); a proxy  *)
(* URL is the tuple of the fields its f-string is built from; None is the  *)
(* empty tuple for a URL and -1 for an index or a timestamp.               *)
(***************************************************************************)
EXTENDS Integers, Sequences, FiniteSets, TLC

VARIABLES
    proxy_list,      \* _proxy_list: sequence of proxy URLs (index i is element i+1)
    proxy_stats,     \* _proxy_stats: index -> [url, requests, errors, last_used]
    proxy_requests,  \* _proxy_balancer.proxy_requests: index -> timestamps
    proxy_weights,   \* _proxy_balancer.proxy_weights: index -> <<timestamp, weight>>
    proxy_errors,    \* _proxy_balancer.proxy_errors: index -> error count
    last_used,       \* _proxy_balancer.last_used: round-robin pointer
    now,             \* time.time()
    ticks,           \* number of clock advances so far (bounds the clock)
    reports,         \* number of reports made so far (bounds the reports)
    fails,           \* history: URL -> failures reported since the last success,
                     \* pool-wide clear or replacement of the balancer
    streak,          \* history: URL -> failures reported since the last success or
                     \* replacement of the balancer
    sent,            \* history: URL -> the successes reported for it, each with
                     \* its time, its weight and whether the balancer that
                     \* took it is still the one in use
    last,            \* the last call made and what it returned
    lock,            \* _proxy_lock: the thread holding it, or Free
    pc,              \* thread -> the point of its call it has reached
    loc,             \* thread -> the arguments and locals of its call
    calls            \* number of calls the threads have started (bounds them)

vars == <<proxy_list, proxy_stats, proxy_requests, proxy_weights, proxy_errors,
          last_used, now, ticks, reports, fails, streak, sent, last, lock, pc, loc,
          calls>>

\* the state of the threads
tvars == <<lock, pc, loc, calls>>

-----------------------------------------------------------------------------
(* Program constants *)

BINANCE_WEIGHT_LIMIT == 1200
BINANCE_REQUEST_LIMIT == 10
\* SAFE_MARGIN = 0.8, kept as the fraction SafeMarginNum / SafeMarginDen
SafeMarginNum == 8
SafeMarginDen == 10
\* cleanup_old_records keeps entries with current_time - ts < 60
WindowSeconds == 60
\* can_use_proxy counts requests with current_time - ts < 1
RateSeconds == 1
\* can_use_proxy rejects a proxy with proxy_errors > 3
ErrorLimit == 3

(* Bounds of the model *)

\* environment slots proxy1..proxyN that are read (the code reads 10)
MaxSlots == 4
\* reports explored in one behaviour after the warm-up
MaxReports == 1
\* clock advances in one behaviour
MaxTicks == 1
\* calls started by the threads in one behaviour
MaxCalls == 2

NoUrl == <<>>
NoIndex == 0 - 1
NoTime == 0 - 1

Idx == 0 .. (MaxSlots - 1)

\* values of an environment variable proxyN, as the list value.split(':');
\* an unset variable is the empty list
Unset == <<>>
EntryA == <<"10.0.0.1", "8080">>
EntryB == <<"10.0.0.2", "8080">>
EntryBad == <<"10.0.0.3", "8080", "user">>
\* a private proxy, IP:PORT:USERNAME:PASSWORD
EntryPrivate == <<"10.0.0.4", "8080", "user", "secret">>

\* the environments explored: proxy1..proxyN in order; one configures the
\* same proxy in two slots
Envs ==
    { e \in { <<>>,
              <<EntryA>>,
              <<EntryA, EntryB>>,
              <<EntryB, EntryA>>,
              <<EntryA, EntryA>>,
              <<Unset, EntryA, EntryBad, EntryPrivate>> } : Len(e) <= MaxSlots }
\* the environments of the first load
FirstEnvs == { e \in Envs : Len(e) <= 2 /\ (Len(e) = 2 => e[1] = EntryA) }

\* weights a caller reports: the default weight=1 and one that alone reaches
\* the effective weight ceiling
LightWeight == 1
HeavyWeight == (BINANCE_WEIGHT_LIMIT * SafeMarginNum) \div SafeMarginDen
Weights == {LightWeight, HeavyWeight}
\* clock advances: the length of the rate window, that of the weight window,
\* and a second more than that
Deltas == {RateSeconds, WindowSeconds, WindowSeconds + RateSeconds}

-----------------------------------------------------------------------------
(* Registry: load_proxy_list *)

\* the URL built from one split entry, or NoUrl for a malformed or unset one
ProxyUrl(parts) ==
    IF Len(parts) = 2 THEN <<parts[1], parts[2]>>
    ELSE IF Len(parts) = 4 THEN <<parts[3], parts[4], parts[1], parts[2]>>
    ELSE NoUrl

RECURSIVE ParseEnvAborting(_, _, _)
\* a loop that stops at the first malformed entry
ParseEnvAborting(e, k, acc) ==
    IF k > Len(e) THEN acc
    ELSE IF e[k] = Unset THEN ParseEnvAborting(e, k + 1, acc)
    ELSE IF ProxyUrl(e[k]) = NoUrl THEN acc
    ELSE ParseEnvAborting(e, k + 1, Append(acc, ProxyUrl(e[k])))

RECURSIVE ParseEnv(_, _, _)
\* the for-loop of load_proxy_list over the slots k..Len(e), appending to acc
ParseEnv(e, k, acc) ==
    IF k > Len(e) THEN acc
    ELSE IF e[k] # Unset /\ ProxyUrl(e[k]) # NoUrl
         THEN ParseEnv(e, k + 1, Append(acc, ProxyUrl(e[k])))
         ELSE ParseEnv(e, k + 1, acc)

FreshStats(list) ==
    [i \in 0 .. (Len(list) - 1) |->
        [url |-> list[i + 1], requests |-> 0, errors |-> 0, last_used |-> NoTime]]

\* ProxyBalancer.__init__
NewBalancer ==
    [requests |-> [i \in Idx |-> <<>>],
     weights |-> [i \in Idx |-> <<>>],
     errors |-> [i \in Idx |-> 0],
     last_used |-> 0]

\* load_proxy_list without its comparison of the old and the new list
BalancerResetOnlyWhenEmpty(old, new) == new = <<>>

\* load_proxy_list that replaces the balancer at every load
BalancerResetAlways(old, new) == TRUE

\* whether load_proxy_list replaces the balancer, given the old and new lists
BalancerReset(old, new) ==
    \/ old # <<>> /\ old # new
    \/ new = <<>>

\* load_proxy_list: the registry state [list, stats, bal] after loading e
LoadProxyList(e, old, bal) ==
    LET new == ParseEnv(e, 1, <<>>) IN
    [list |-> new,
     stats |-> FreshStats(new),
     bal |-> IF BalancerReset(old, new) THEN NewBalancer ELSE bal]

-----------------------------------------------------------------------------
(* Usage ledger and selection policy: ProxyBalancer *)

RECURSIVE KeepRecent(_, _, _)
\* the list comprehension [x for x in s if t - ts(x) < WindowSeconds]
KeepRecent(s, t, pairs) ==
    IF s = <<>> THEN <<>>
    ELSE LET ts == IF pairs THEN Head(s)[1] ELSE Head(s) IN
         IF t - ts < WindowSeconds
         THEN <<Head(s)>> \o KeepRecent(Tail(s), t, pairs)
         ELSE KeepRecent(Tail(s), t, pairs)

CleanupOldRecords(bal, i, t) ==
    [bal EXCEPT !.requests[i] = KeepRecent(bal.requests[i], t, FALSE),
                !.weights[i] = KeepRecent(bal.weights[i], t, TRUE)]

RECURSIVE CountRecent(_, _)
\* len([ts for ts in s if t - ts < RateSeconds])
CountRecent(s, t) ==
    IF s = <<>> THEN 0
    ELSE (IF t - Head(s) < RateSeconds THEN 1 ELSE 0) + CountRecent(Tail(s), t)

RECURSIVE SumWeights(_, _)
\* sum(weight for ts, weight in s if t - ts < WindowSeconds)
SumWeights(s, t) ==
    IF s = <<>> THEN 0
    ELSE (IF t - Head(s)[1] < WindowSeconds THEN Head(s)[2] ELSE 0)
         + SumWeights(Tail(s), t)

\* can_use_proxy without its test of the error counter
CanUseProxyIgnoringErrors(bal, i, t) ==
    IF CountRecent(bal.requests[i], t) * SafeMarginDen
           >= BINANCE_REQUEST_LIMIT * SafeMarginNum THEN FALSE
    ELSE IF SumWeights(bal.weights[i], t) * SafeMarginDen
           >= BINANCE_WEIGHT_LIMIT * SafeMarginNum THEN FALSE
    ELSE TRUE

\* can_use_proxy without its test of the weight
CanUseProxyIgnoringWeight(bal, i, t) ==
    IF CountRecent(bal.requests[i], t) * SafeMarginDen
           >= BINANCE_REQUEST_LIMIT * SafeMarginNum THEN FALSE
    ELSE IF bal.errors[i] > ErrorLimit THEN FALSE
    ELSE TRUE

\* can_use_proxy that rejects a proxy from three errors on
CanUseProxyStrictErrors(bal, i, t) ==
    IF CountRecent(bal.requests[i], t) * SafeMarginDen
           >= BINANCE_REQUEST_LIMIT * SafeMarginNum THEN FALSE
    ELSE IF SumWeights(bal.weights[i], t) * SafeMarginDen
           >= BINANCE_WEIGHT_LIMIT * SafeMarginNum THEN FALSE
    ELSE IF bal.errors[i] >= ErrorLimit THEN FALSE
    ELSE TRUE

\* the result of can_use_proxy on a balancer already cleaned for i
CanUseProxy(bal, i, t) ==
    IF CountRecent(bal.requests[i], t) * SafeMarginDen
           >= BINANCE_REQUEST_LIMIT * SafeMarginNum THEN FALSE
    ELSE IF SumWeights(bal.weights[i], t) * SafeMarginDen
           >= BINANCE_WEIGHT_LIMIT * SafeMarginNum THEN FALSE
    ELSE IF bal.errors[i] > ErrorLimit THEN FALSE
    ELSE TRUE

RECURSIVE ScanProxies(_, _, _, _, _, _)
\* the loops `for i in range(len(_proxy_list)): if self.can_use_proxy(i): ...`
\* from index i on; scored says whether the load score or 0 is recorded
ScanProxies(bal, n, i, t, scored, acc) ==
    IF i >= n THEN [bal |-> bal, available |-> acc]
    ELSE LET b == CleanupOldRecords(bal, i, t) IN
         IF CanUseProxy(b, i, t)
         THEN ScanProxies(b, n, i + 1, t, scored,
                  Append(acc, <<i, IF scored
                                   THEN Len(b.requests[i]) + Len(b.weights[i])
                                   ELSE 0>>))
         ELSE ScanProxies(b, n, i + 1, t, scored, acc)

\* a choice that takes the first available proxy whatever its score
FirstAvailable(available) == available[1][1]

\* available_proxies.sort(key=score)[0][0]: the sort is stable, so the first
\* entry with the least score
LeastLoaded(available) ==
    LET k == CHOOSE k \in 1 .. Len(available) :
                /\ \A j \in 1 .. Len(available) : available[k][2] <= available[j][2]
                /\ \A j \in 1 .. (k - 1) : available[j][2] > available[k][2]
    IN available[k][1]

\* a fallback that gives up instead of taking the next proxy in turn
RoundRobinGivesUp(bal, n) == [bal |-> bal, index |-> NoIndex]

\* a fallback that returns the proxy under the pointer and leaves the pointer
RoundRobinStays(bal, n) == [bal |-> bal, index |-> bal.last_used % n]

\* a fallback that advances the pointer without wrapping it to the list
RoundRobinUnbounded(bal, n) ==
    [bal |-> [bal EXCEPT !.last_used = @ + 1], index |-> bal.last_used + 1]

\* the round-robin fallback of get_best_proxy: [bal, index]
RoundRobin(bal, n) ==
    LET next == (bal.last_used + 1) % n IN
    [bal |-> [bal EXCEPT !.last_used = next], index |-> next]

\* get_best_proxy without its proxy_errors.clear()
GetBestProxyKeepingErrors(bal, list, t) ==
    IF list = <<>> THEN [bal |-> bal, index |-> NoIndex]
    ELSE
    LET n == Len(list)
        first == ScanProxies(bal, n, 0, t, TRUE, <<>>)
        second == IF first.available = <<>>
                  THEN ScanProxies(first.bal, n, 0, t, FALSE, <<>>)
                  ELSE first
    IN IF second.available = <<>>
       THEN RoundRobin(second.bal, n)
       ELSE [bal |-> second.bal, index |-> LeastLoaded(second.available)]

\* get_best_proxy that clears the error counters in every call
GetBestProxyAlwaysClearing(bal, list, t) ==
    IF list = <<>> THEN [bal |-> bal, index |-> NoIndex]
    ELSE
    LET n == Len(list)
        first == ScanProxies(bal, n, 0, t, TRUE, <<>>)
        cleared == [first.bal EXCEPT !.errors = [i \in Idx |-> 0]]
        second == IF first.available = <<>>
                  THEN ScanProxies(cleared, n, 0, t, FALSE, <<>>)
                  ELSE [first EXCEPT !.bal = cleared]
    IN IF second.available = <<>>
       THEN RoundRobin(second.bal, n)
       ELSE [bal |-> second.bal, index |-> LeastLoaded(second.available)]

\* get_best_proxy: [bal, index]
GetBestProxy(bal, list, t) ==
    IF list = <<>> THEN [bal |-> bal, index |-> NoIndex]
    ELSE
    LET n == Len(list)
        first == ScanProxies(bal, n, 0, t, TRUE, <<>>)
        cleared == [first.bal EXCEPT !.errors = [i \in Idx |-> 0]]
        second == IF first.available = <<>>
                  THEN ScanProxies(cleared, n, 0, t, FALSE, <<>>)
                  ELSE first
    IN IF second.available = <<>>
       THEN RoundRobin(second.bal, n)
       ELSE [bal |-> second.bal, index |-> LeastLoaded(second.available)]

\* record_request that books every request with the default weight
RecordRequestUnitWeight(bal, i, weight, t) ==
    [bal EXCEPT !.requests[i] = Append(@, t),
                !.weights[i] = Append(@, <<t, LightWeight>>)]

RecordRequest(bal, i, weight, t) ==
    [bal EXCEPT !.requests[i] = Append(@, t),
                !.weights[i] = Append(@, <<t, weight>>)]

\* record_error that also books a request
RecordErrorAsRequest(bal, i) ==
    [bal EXCEPT !.errors[i] = @ + 1, !.requests[i] = Append(@, 0)]

RecordError(bal, i) == [bal EXCEPT !.errors[i] = @ + 1]

\* reset_errors that resets nothing
ResetErrorsForgotten(bal, i) == bal

ResetErrors(bal, i) == [bal EXCEPT !.errors[i] = 0]

-----------------------------------------------------------------------------
(* The module-level functions of config.py, each on the state
   [list, stats, bal] and returning the state after the call and its result *)

State == [list |-> proxy_list,
          stats |-> proxy_stats,
          bal |-> [requests |-> proxy_requests,
                   weights |-> proxy_weights,
                   errors |-> proxy_errors,
                   last_used |-> last_used]]

\* `if not _proxy_list: load_proxy_list()`
LoadIfEmpty(s, e) ==
    IF s.list = <<>> THEN LoadProxyList(e, s.list, s.bal) ELSE s

\* get_current_proxy that books a request on the proxy it returns
GetCurrentProxyOnReserving(s, e, t) ==
    LET s1 == LoadIfEmpty(s, e) IN
    IF s1.list = <<>> THEN [s |-> s1, url |-> NoUrl, index |-> NoIndex]
    ELSE
    LET best == GetBestProxy(s1.bal, s1.list, t) IN
    [s |-> [s1 EXCEPT !.bal = RecordRequest(best.bal, best.index, LightWeight, t),
                      !.stats[best.index].last_used = t],
     url |-> s1.list[best.index + 1],
     index |-> best.index]

\* get_current_proxy, entered with the lock held, on state s at time t
GetCurrentProxyOn(s, e, t) ==
    LET s1 == LoadIfEmpty(s, e) IN
    IF s1.list = <<>> THEN [s |-> s1, url |-> NoUrl, index |-> NoIndex]
    ELSE
    LET best == GetBestProxy(s1.bal, s1.list, t) IN
    IF best.index # NoIndex /\ best.index < Len(s1.list)
    THEN [s |-> [s1 EXCEPT !.bal = best.bal,
                           !.stats[best.index].last_used = t],
          url |-> s1.list[best.index + 1],
          index |-> best.index]
    ELSE [s |-> LoadProxyList(e, s1.list, best.bal), url |-> NoUrl, index |-> NoIndex]

\* the loop of record_proxy_usage that finds the index of proxy_url
FindIndex(list, url) ==
    IF \E k \in 1 .. Len(list) : list[k] = url
    THEN (CHOOSE k \in 1 .. Len(list) :
              list[k] = url /\ \A j \in 1 .. (k - 1) : list[j] # url) - 1
    ELSE NoIndex

\* record_proxy_usage that books an unknown URL on the first proxy
RecordProxyUsageOnFirstIfUnknown(s, url, weight, error, t) ==
    IF s.list = <<>> THEN s
    ELSE
    LET f == FindIndex(s.list, url)
        i == IF f = NoIndex THEN 0 ELSE f IN
    IF error
    THEN [s EXCEPT !.bal = RecordError(s.bal, i),
                   !.stats[i].errors = @ + 1]
    ELSE [s EXCEPT !.bal = ResetErrors(RecordRequest(s.bal, i, weight, t), i),
                   !.stats[i].requests = @ + 1]

\* record_proxy_usage
RecordProxyUsageOn(s, url, weight, error, t) ==
    IF s.list = <<>> THEN s
    ELSE
    LET i == FindIndex(s.list, url) IN
    IF i = NoIndex THEN s
    ELSE IF error
    THEN [s EXCEPT !.bal = RecordError(s.bal, i),
                   !.stats[i].errors = @ + 1]
    ELSE [s EXCEPT !.bal = ResetErrors(RecordRequest(s.bal, i, weight, t), i),
                   !.stats[i].requests = @ + 1]

\* rotate_proxy: the first get_best_proxy of its loop returns an index
RotateProxyOn(s, e, t) ==
    LET s1 == LoadIfEmpty(s, e) IN
    IF s1.list # <<>>
    THEN LET best == GetBestProxy(s1.bal, s1.list, t) IN
         [s |-> [s1 EXCEPT !.bal = best.bal], ok |-> best.index # NoIndex,
          index |-> best.index]
    ELSE [s |-> s1, ok |-> FALSE, index |-> NoIndex]

\* the entry of detailed_stats that the loop of get_proxy_stats makes for
\* index i
ProxyStat(s, i, t) ==
    LET b == CleanupOldRecords(s.bal, i, t)
        recent_requests == Len(b.requests[i])
        current_weight == SumWeights(b.weights[i], t)
    IN [index |-> i,
        url |-> s.list[i + 1],
        available |-> CanUseProxy(b, i, t),
        requests_last_minute |-> recent_requests,
        weight_last_minute |-> current_weight,
        total_requests |-> s.stats[i].requests,
        total_errors |-> b.errors[i],
        last_used |-> s.stats[i].last_used]

RECURSIVE CleanupAll(_, _, _, _)
CleanupAll(bal, n, i, t) ==
    IF i >= n THEN bal ELSE CleanupAll(CleanupOldRecords(bal, i, t), n, i + 1, t)

\* get_proxy_stats that reports the slots read for the total, not the list
GetProxyStatsOnCountingSlots(s, e, t) ==
    LET s1 == LoadIfEmpty(s, e)
        cur == GetCurrentProxyOn(s1, e, t)
    IN [s |-> cur.s,
        total |-> MaxSlots,
        available_count |-> 0,
        current_proxy |-> cur.url,
        detailed_stats |-> [i \in 0 .. (Len(s1.list) - 1) |-> ProxyStat(s1, i, t)]]

\* get_proxy_stats: the state after the call and the snapshot returned
GetProxyStatsOn(s, e, t) ==
    LET s1 == LoadIfEmpty(s, e)
        n == Len(s1.list)
        detailed == [i \in 0 .. (n - 1) |-> ProxyStat(s1, i, t)]
        s2 == [s1 EXCEPT !.bal = CleanupAll(s1.bal, n, 0, t)]
        cur == GetCurrentProxyOn(s2, e, t)
    IN [s |-> cur.s,
        total |-> n,
        available_count |-> Cardinality({i \in 0 .. (n - 1) : detailed[i].available}),
        current_proxy |-> cur.url,
        detailed_stats |-> detailed]

-----------------------------------------------------------------------------
(* History of the reports, kept beside the program state *)

\* the proxy references a caller may hold: every URL some environment
\* configures, and one that none does
UnknownUrl == <<"10.0.0.9", "8080">>
AllUrls ==
    UNION { {l[k] : k \in 1 .. Len(l)} : l \in {ParseEnv(e, 1, <<>>) : e \in Envs} }
        \cup {UnknownUrl}

NoFails == [u \in AllUrls |-> 0]

\* the indices that pass all three tests of can_use_proxy at time t
Eligible(s, t) ==
    {i \in 0 .. (Len(s.list) - 1) : CanUseProxy(CleanupOldRecords(s.bal, i, t), i, t)}

\* the history after a selection on s (the list is empty only with a new
\* balancer): a selection that finds no eligible proxy clears every counter
FailsAfterSelect(s, t) ==
    IF s.list # <<>> /\ Eligible(s, t) = {} THEN NoFails ELSE fails

\* the history after a load of the list new over the list old
FailsAfterLoad(old, new) ==
    IF BalancerReset(old, new) THEN NoFails ELSE fails

\* the successes on record after a load of the list new over the list old
SentAfterLoad(old, new) ==
    IF BalancerReset(old, new)
    THEN [u \in AllUrls |-> [k \in 1 .. Len(sent[u]) |-> [sent[u][k] EXCEPT !.live = FALSE]]]
    ELSE sent

\* the successes on record at time t: one as old as a window is in the last
\* minute of no later time
SentAfterTick(t) ==
    [u \in AllUrls |-> SelectSeq(sent[u], LAMBDA x : t - x.ts < WindowSeconds)]

\* the successes on record after record_proxy_usage(url, weight, error) at t
\* for the index i
SentAfterReport(url, i, weight, error, t) ==
    IF i = NoIndex \/ error THEN sent
    ELSE [sent EXCEPT ![url] = Append(@, [ts |-> t, weight |-> weight, live |-> TRUE])]

-----------------------------------------------------------------------------
(* Actions: one call of a function of config.py, run to its end. What a call
   computes is bound once, as the one element of a set. *)

Commit(s) ==
    /\ proxy_list' = s.list
    /\ proxy_stats' = s.stats
    /\ proxy_requests' = s.bal.requests
    /\ proxy_weights' = s.bal.weights
    /\ proxy_errors' = s.bal.errors
    /\ last_used' = s.bal.last_used

\* the record of a call: what it was, the proxy it returned or was given, the
\* error counters, round-robin pointer and list it found, and the environment
\* it read if it ran load_proxy_list
NoSnapshot == [total |-> 0, available_count |-> 0, current_proxy |-> NoUrl,
               detailed_stats |-> <<>>]

\* the proxy a caller is retrying away from when it makes the call op: the
\* one it has just reported a failure for, kept through a rotate_proxy that
\* follows the report and a get_current_proxy that follows the rotation
Retrying(op, url, index) ==
    IF op = "failure" /\ index # NoIndex THEN url
    ELSE IF op = "rotate" /\ last.op = "failure" THEN last.retry
    ELSE IF op = "select" /\ last.op = "rotate" THEN last.retry
    ELSE NoUrl

\* the index the previous call returned, kept when a get_current_proxy
\* directly follows a get_current_proxy
Previous(op) ==
    IF op = "select" /\ last.op = "select" THEN last.index ELSE NoIndex

Call(op, url, index) ==
    [op |-> op, url |-> url, index |-> index,
     errors |-> proxy_errors, pointer |-> last_used, list |-> proxy_list,
     prev |-> Previous(op),
     retry |-> Retrying(op, url, index),
     loaded |-> FALSE, env |-> <<>>,
     snapshot |-> NoSnapshot]

\* the record of a call that ran load_proxy_list on the environment e if the
\* list it found was empty
Loading(call, e) == [call EXCEPT !.loaded = proxy_list = <<>>, !.env = e]

\* the dictionary get_proxy_stats returns
Snapshot(r) ==
    [total |-> r.total, available_count |-> r.available_count,
     current_proxy |-> r.current_proxy, detailed_stats |-> r.detailed_stats]

RECURSIVE Repeat(_, _, _, _, _, _)
\* k calls record_proxy_usage(url, weight, error) in a row at time t
Repeat(s, url, weight, error, k, t) ==
    IF k = 0 THEN s
    ELSE Repeat(RecordProxyUsageOn(s, url, weight, error, t), url, weight, error, k - 1, t)

\* what a proxy has been through when exploration starts: heavy successes,
\* then light ones, then failures, all reported within the first second
RateCeiling == (BINANCE_REQUEST_LIMIT * SafeMarginNum) \div SafeMarginDen
Cold == [heavy |-> 0, light |-> 0, failed |-> 0]
Busy == [heavy |-> 0, light |-> RateCeiling - 1, failed |-> 0]
Failing == [heavy |-> 0, light |-> 0, failed |-> ErrorLimit]
Saturated == [heavy |-> 1, light |-> RateCeiling, failed |-> ErrorLimit]
Profiles == {Cold, Busy, Failing, Saturated}

RECURSIVE WarmUp(_, _, _)
\* the state after the reports of profile p[i] for every index from i on
WarmUp(s, p, i) ==
    IF i >= Len(s.list) THEN s
    ELSE LET u == s.list[i + 1]
             s1 == Repeat(s, u, HeavyWeight, FALSE, p[i].heavy, 0)
             s2 == Repeat(s1, u, LightWeight, FALSE, p[i].light, 0)
             s3 == Repeat(s2, u, LightWeight, TRUE, p[i].failed, 0)
         IN WarmUp(s3, p, i + 1)

\* the warm-ups of a list with profiles of ps: the reports for a URL are
\* given once, with its first index
WarmUps(list, ps) ==
    { p \in [0 .. (Len(list) - 1) -> ps] :
        \A i \in 0 .. (Len(list) - 1) : FindIndex(list, list[i + 1]) # i => p[i] = Cold }

Threads == {"t1", "t2"}
Free == "free"
NoLocals == [env |-> <<>>, old |-> <<>>, k |-> 0, list |-> <<>>, i |-> 0,
             url |-> NoUrl, weight |-> 0, error |-> FALSE, after |-> "idle",
             requests |-> <<>>, weights |-> <<>>,
             next |-> NoUrl, outcome |-> "none", booked |-> <<>>]

\* the program after construction, a first load_proxy_list and a warm-up
\* with profiles of ps, no call in progress
InitWith(ps) ==
    \E e \in FirstEnvs :
      LET s0 == LoadProxyList(e, <<>>, NewBalancer) IN
      \E p \in WarmUps(s0.list, ps) :
        LET s == WarmUp(s0, p, 0) IN
        /\ proxy_list = s.list
        /\ proxy_stats = s.stats
        /\ proxy_requests = s.bal.requests
        /\ proxy_weights = s.bal.weights
        /\ proxy_errors = s.bal.errors
        /\ last_used = s.bal.last_used
        /\ now = 0
        /\ ticks = 0
        /\ reports = 0
        /\ fails = [u \in AllUrls |->
                      IF FindIndex(s.list, u) = NoIndex THEN 0
                      ELSE p[FindIndex(s.list, u)].failed]
        /\ streak = fails
        /\ sent = [u \in AllUrls |->
                     IF FindIndex(s.list, u) = NoIndex THEN <<>>
                     ELSE LET q == p[FindIndex(s.list, u)] IN
                          [k \in 1 .. (q.heavy + q.light) |->
                             [ts |-> 0,
                              weight |-> IF k <= q.heavy THEN HeavyWeight ELSE LightWeight,
                              live |-> TRUE]]]
        /\ last = [op |-> "init", url |-> NoUrl, index |-> NoIndex,
                   errors |-> s.bal.errors, pointer |-> s.bal.last_used,
                   list |-> s.list,
                   prev |-> NoIndex,
                   retry |-> NoUrl, loaded |-> TRUE, env |-> e,
                   snapshot |-> NoSnapshot]
        /\ lock = Free
        /\ calls = 0
        /\ pc = [t \in Threads |-> "idle"]
        /\ loc = [t \in Threads |-> NoLocals]

Init == InitWith(Profiles)

\* load_proxy_list() called by a request helper after a failed request
Reload(e) ==
    \E r \in {LoadProxyList(e, proxy_list, State.bal)} :
    /\ Commit(r)
    /\ fails' = FailsAfterLoad(proxy_list, r.list)
    /\ streak' = IF BalancerReset(proxy_list, r.list) THEN NoFails ELSE streak
    /\ sent' = SentAfterLoad(proxy_list, r.list)
    /\ last' = [Call("load", NoUrl, NoIndex) EXCEPT !.loaded = TRUE, !.env = e]
    /\ UNCHANGED <<now, ticks, reports, tvars>>

GetCurrentProxy(e) ==
    \E s1 \in {LoadIfEmpty(State, e)}, r \in {GetCurrentProxyOn(State, e, now)} :
    /\ Commit(r.s)
    /\ fails' = FailsAfterSelect(s1, now)
    /\ streak' = streak
    /\ sent' = sent
    /\ last' = Loading(Call("select", r.url, r.index), e)
    /\ UNCHANGED <<now, ticks, reports, tvars>>

RecordProxyUsage(url, weight, error) ==
    \E i \in {FindIndex(proxy_list, url)}, r \in {RecordProxyUsageOn(State, url, weight, error, now)} :
    /\ reports < MaxReports
    /\ reports' = reports + 1
    /\ Commit(r)
    /\ fails' = IF i = NoIndex THEN fails
                ELSE IF error THEN [fails EXCEPT ![url] = @ + 1]
                ELSE [fails EXCEPT ![url] = 0]
    /\ streak' = IF i = NoIndex THEN streak
                 ELSE IF error THEN [streak EXCEPT ![url] = @ + 1]
                 ELSE [streak EXCEPT ![url] = 0]
    /\ sent' = SentAfterReport(url, i, weight, error, now)
    /\ last' = Call(IF error THEN "failure" ELSE "success", url, i)
    /\ UNCHANGED <<now, ticks, tvars>>

RotateProxy(e) ==
    \E s1 \in {LoadIfEmpty(State, e)}, r \in {RotateProxyOn(State, e, now)} :
    /\ Commit(r.s)
    /\ fails' = FailsAfterSelect(s1, now)
    /\ streak' = streak
    /\ sent' = sent
    /\ last' = Loading(Call("rotate", NoUrl, r.index), e)
    /\ UNCHANGED <<now, ticks, reports, tvars>>

GetProxyStats(e) ==
    \E s1 \in {LoadIfEmpty(State, e)}, r \in {GetProxyStatsOn(State, e, now)} :
    /\ Commit(r.s)
    /\ fails' = FailsAfterSelect(s1, now)
    /\ streak' = streak
    /\ sent' = sent
    /\ last' = [Loading(Call("stats", r.current_proxy, NoIndex), e)
                   EXCEPT !.snapshot = Snapshot(r)]
    /\ UNCHANGED <<now, ticks, reports, tvars>>

\* time passes
Tick(d) ==
    /\ ticks < MaxTicks
    /\ now' = now + d
    /\ ticks' = ticks + 1
    /\ sent' = SentAfterTick(now + d)
    /\ last' = Call("tick", NoUrl, NoIndex)
    /\ UNCHANGED <<proxy_list, proxy_stats, proxy_requests, proxy_weights,
                   proxy_errors, last_used, reports, fails, streak, tvars>>

\* the environments a call may find: it reads the environment only when it
\* loads, which these calls do on an empty list (and get_current_proxy after
\* an index outside the list, which get_best_proxy does not return)
EnvsRead == IF proxy_list = <<>> THEN Envs ELSE {<<>>}

Next ==
    \/ \E e \in Envs : Reload(e)
    \/ \E e \in EnvsRead : GetCurrentProxy(e)
    \/ \E u \in AllUrls, w \in Weights, err \in BOOLEAN : RecordProxyUsage(u, w, err)
    \/ \E e \in EnvsRead : RotateProxy(e)
    \/ \E e \in EnvsRead : GetProxyStats(e)
    \/ \E d \in Deltas : Tick(d)

Spec == Init /\ [][Next]_vars

-----------------------------------------------------------------------------
(* The same functions called from several threads. A function that takes
   _proxy_lock is three steps: the call, which brings the thread to its
   `with _proxy_lock:`, the acquisition, which waits for the lock to be free,
   and the body with the release; code that runs without the lock is a step
   per statement group, and other threads run between its steps. *)

Goto(t, label) == pc' = [pc EXCEPT ![t] = label]

SetBalancer(bal) ==
    /\ proxy_requests' = bal.requests
    /\ proxy_weights' = bal.weights
    /\ proxy_errors' = bal.errors
    /\ last_used' = bal.last_used

History == <<now, ticks, fails, streak, sent>>

\* a call of get_current_proxy, rotate_proxy or record_proxy_usage: the thread
\* comes to the `with _proxy_lock:` that opens the function body
Enter(t, label, url, weight, error) ==
    /\ pc[t] = "idle"
    /\ calls < MaxCalls
    /\ calls' = calls + 1
    /\ Goto(t, "wait")
    /\ loc' = [loc EXCEPT ![t] = [NoLocals EXCEPT !.url = url, !.weight = weight,
                                                  !.error = error, !.after = label]]
    /\ UNCHANGED <<proxy_list, proxy_stats, proxy_requests, proxy_weights,
                   proxy_errors, last_used, reports, last, lock, History>>

CallSelect(t) == Enter(t, "select", NoUrl, 0, FALSE)

CallRotate(t) == Enter(t, "rotate", NoUrl, 0, FALSE)

CallRecord(t, url, weight, error) ==
    /\ reports + Cardinality({u \in Threads : loc[u].after = "record"}) < MaxReports
    /\ Enter(t, "record", url, weight, error)

\* `with _proxy_lock:` of get_current_proxy, rotate_proxy or record_proxy_usage:
\* _proxy_lock.acquire() returns once the lock is free
Acquire(t) ==
    /\ pc[t] = "wait"
    /\ lock = Free
    /\ lock' = t
    /\ Goto(t, loc[t].after)
    /\ UNCHANGED <<proxy_list, proxy_stats, proxy_requests, proxy_weights,
                   proxy_errors, last_used, reports, last, loc, History, calls>>

\* the end of a `with _proxy_lock:` block
Release(t) ==
    /\ lock' = Free
    /\ Goto(t, "idle")
    /\ loc' = [loc EXCEPT ![t] = NoLocals]

SelectBody(t, e) ==
    /\ pc[t] = "select"
    /\ \E r \in {GetCurrentProxyOn(State, e, now)} :
          /\ Commit(r.s)
          /\ last' = Call("select", r.url, r.index)
    /\ Release(t)
    /\ UNCHANGED <<reports, History, calls>>

RotateBody(t, e) ==
    /\ pc[t] = "rotate"
    /\ \E r \in {RotateProxyOn(State, e, now)} :
          /\ Commit(r.s)
          /\ last' = Call("rotate", NoUrl, r.index)
    /\ Release(t)
    /\ UNCHANGED <<reports, History, calls>>

RecordBody(t) ==
    /\ pc[t] = "record"
    /\ \E a \in {loc[t]} :
          /\ \E r \in {RecordProxyUsageOn(State, a.url, a.weight, a.error, now)} :
                Commit(r)
          /\ last' = Call(IF a.error THEN "failure" ELSE "success", a.url,
                          FindIndex(proxy_list, a.url))
    /\ reports' = reports + 1
    /\ Release(t)
    /\ UNCHANGED <<History, calls>>

\* a call of load_proxy_list() made without the lock: by a request helper
\* after a failed request (to = "idle") or by get_proxy_stats on an empty
\* list (to = "stats_scan")
LoadCall(t, e, to) ==
    /\ pc[t] = "idle"
    /\ calls < MaxCalls
    /\ calls' = calls + 1
    /\ to = "stats_scan" => proxy_list = <<>>
    /\ Goto(t, "load_clear")
    /\ loc' = [loc EXCEPT ![t] = [NoLocals EXCEPT !.env = e, !.after = to]]
    /\ UNCHANGED <<proxy_list, proxy_stats, proxy_requests, proxy_weights,
                   proxy_errors, last_used, reports, last, lock, History>>

\* load_proxy_list, lines 149-152
LoadClear(t) ==
    /\ pc[t] = "load_clear"
    /\ loc' = [loc EXCEPT ![t].old = proxy_list, ![t].k = 1]
    /\ proxy_list' = <<>>
    /\ proxy_stats' = FreshStats(<<>>)
    /\ Goto(t, "load_append")
    /\ UNCHANGED <<proxy_requests, proxy_weights, proxy_errors, last_used,
                   reports, last, lock, History, calls>>

\* load_proxy_list, one turn of the loop of lines 154-188
LoadAppend(t) ==
    LET a == loc[t]
        url == ProxyUrl(a.env[a.k])
        new == Append(proxy_list, url) IN
    /\ pc[t] = "load_append"
    /\ a.k <= Len(a.env)
    /\ IF a.env[a.k] # Unset /\ url # NoUrl
       THEN /\ proxy_list' = new
            /\ proxy_stats' = [i \in DOMAIN proxy_stats \cup {Len(new) - 1} |->
                                 IF i = Len(new) - 1
                                 THEN FreshStats(new)[i] ELSE proxy_stats[i]]
       ELSE UNCHANGED <<proxy_list, proxy_stats>>
    /\ loc' = [loc EXCEPT ![t].k = a.k + 1]
    /\ UNCHANGED <<proxy_requests, proxy_weights, proxy_errors, last_used,
                   reports, last, lock, pc, History, calls>>

\* load_proxy_list, lines 191-206, and the return to the caller
LoadFinish(t) ==
    LET a == loc[t] IN
    /\ pc[t] = "load_append"
    /\ a.k > Len(a.env)
    /\ IF BalancerReset(a.old, proxy_list)
       THEN SetBalancer(NewBalancer)
       ELSE UNCHANGED <<proxy_requests, proxy_weights, proxy_errors, last_used>>
    /\ Goto(t, a.after)
    /\ loc' = [loc EXCEPT ![t] = [NoLocals EXCEPT !.list = proxy_list]]
    /\ last' = IF a.after = "idle" THEN Call("load", NoUrl, NoIndex) ELSE last
    /\ UNCHANGED <<proxy_list, proxy_stats, reports, lock, History, calls>>

\* get_proxy_stats that takes the lock for its loop
StatsCallLocking(t) ==
    /\ pc[t] = "idle"
    /\ calls < MaxCalls
    /\ calls' = calls + 1
    /\ proxy_list # <<>>
    /\ lock = Free
    /\ lock' = t
    /\ Goto(t, "stats_scan")
    /\ loc' = [loc EXCEPT ![t] = [NoLocals EXCEPT !.list = proxy_list]]
    /\ UNCHANGED <<proxy_list, proxy_stats, proxy_requests, proxy_weights,
                   proxy_errors, last_used, reports, last, History>>

\* get_proxy_stats on a loaded list, lines 274-278: the loop runs over the
\* list object it finds
StatsCall(t) ==
    /\ pc[t] = "idle"
    /\ calls < MaxCalls
    /\ calls' = calls + 1
    /\ proxy_list # <<>>
    /\ Goto(t, "stats_scan")
    /\ loc' = [loc EXCEPT ![t] = [NoLocals EXCEPT !.list = proxy_list]]
    /\ UNCHANGED <<proxy_list, proxy_stats, proxy_requests, proxy_weights,
                   proxy_errors, last_used, reports, last, lock, History>>

\* get_proxy_stats, one turn of the loop of lines 280-312, without the lock:
\* the list comprehensions of cleanup_old_records read the two windows of
\* index i and build the lists to keep
StatsScan(t) ==
    LET a == loc[t]
        kept == CleanupOldRecords(State.bal, a.i, now) IN
    /\ pc[t] = "stats_scan"
    /\ a.i < Len(a.list)
    /\ loc' = [loc EXCEPT ![t].requests = kept.requests[a.i],
                          ![t].weights = kept.weights[a.i]]
    /\ Goto(t, "stats_store")
    /\ UNCHANGED <<proxy_list, proxy_stats, proxy_requests, proxy_weights,
                   proxy_errors, last_used, reports, last, lock, History, calls>>

\* the assignments of cleanup_old_records store the lists built, and the turn
\* ends; the pruning that can_use_proxy repeats at line 294 is these two
\* steps again
StatsStore(t) ==
    LET a == loc[t] IN
    /\ pc[t] = "stats_store"
    /\ proxy_requests' = [proxy_requests EXCEPT ![a.i] = a.requests]
    /\ proxy_weights' = [proxy_weights EXCEPT ![a.i] = a.weights]
    /\ loc' = [loc EXCEPT ![t].i = a.i + 1, ![t].requests = <<>>, ![t].weights = <<>>]
    /\ Goto(t, "stats_scan")
    /\ UNCHANGED <<proxy_list, proxy_stats, proxy_errors, last_used, reports, last,
                   lock, History, calls>>

\* get_proxy_stats, line 317: get_current_proxy() takes the lock
StatsAcquire(t) ==
    /\ pc[t] = "stats_scan"
    /\ loc[t].i >= Len(loc[t].list)
    /\ lock = Free
    /\ lock' = t
    /\ Goto(t, "stats_select")
    /\ UNCHANGED <<proxy_list, proxy_stats, proxy_requests, proxy_weights,
                   proxy_errors, last_used, reports, last, loc, History, calls>>

StatsSelectBody(t, e) ==
    /\ pc[t] = "stats_select"
    /\ \E r \in {GetCurrentProxyOn(State, e, now)} :
          /\ Commit(r.s)
          /\ last' = Call("stats", r.url, NoIndex)
    /\ Release(t)
    /\ UNCHANGED <<reports, History, calls>>

\* a step of thread t, with the environments envs to load from and the proxy
\* references urls to report for
ThreadStepOver(t, envs, urls) ==
    \/ CallSelect(t)
    \/ CallRotate(t)
    \/ \E u \in urls, w \in Weights, err \in BOOLEAN : CallRecord(t, u, w, err)
    \/ Acquire(t)
    \/ \E e \in (IF proxy_list = <<>> THEN envs ELSE {<<>>}) : SelectBody(t, e)
    \/ \E e \in (IF proxy_list = <<>> THEN envs ELSE {<<>>}) : RotateBody(t, e)
    \/ RecordBody(t)
    \/ \E e \in envs : LoadCall(t, e, "idle")
    \/ \E e \in envs : LoadCall(t, e, "stats_scan")
    \/ LoadClear(t)
    \/ LoadAppend(t)
    \/ LoadFinish(t)
    \/ StatsCall(t)
    \/ StatsScan(t)
    \/ StatsStore(t)
    \/ StatsAcquire(t)
    \/ \E e \in (IF proxy_list = <<>> THEN envs ELSE {<<>>}) : StatsSelectBody(t, e)

ThreadStep(t) == ThreadStepOver(t, Envs, AllUrls)

NextThreads == \E t \in Threads : ThreadStep(t)

\* the profiles of the warm-up under threads
ThreadProfiles == {Cold, Failing}

InitThreads == InitWith(ThreadProfiles)

SpecThreads == InitThreads /\ [][NextThreads]_vars

-----------------------------------------------------------------------------
(* The HTTP helpers, make_request_with_retry of analysis.py and
   make_request_with_proxy of coingecko.py, as coroutines of one event loop:
   the code between two awaits is one step, and the calls it makes into
   config.py run to their end inside it. A coroutine keeps in loc the proxy of
   the attempt it is making (next) and, of the attempt that has just ended,
   the proxy (url), how it ended (outcome) and the reports made for it
   (booked). *)

\* how an attempt ends: status 200 with a body that parses, a status of 400
\* or more, another status, status 200 with a body that response.json()
\* rejects, and an exception or timeout before any response
Outcomes == {"ok", "refused", "other", "badbody", "raised"}

HelperFrame == <<ticks, reports, fails, streak, sent, last, lock>>

\* the state after record_proxy_usage(url, weight, error) if url is a proxy
Book(s, url, weight, error, t) ==
    IF url = NoUrl THEN s ELSE RecordProxyUsageOn(s, url, weight, error, t)

\* a call of make_request_with_retry(url, params, weight=weight)
RetryCall(t, weight) ==
    /\ pc[t] = "idle"
    /\ calls < MaxCalls
    /\ calls' = calls + 1
    /\ Goto(t, "retry_select")
    /\ loc' = [loc EXCEPT ![t] = [NoLocals EXCEPT !.weight = weight]]
    /\ UNCHANGED <<proxy_list, proxy_stats, proxy_requests, proxy_weights,
                   proxy_errors, last_used, now, HelperFrame>>

\* analysis.py line 64, up to the await of the request
RetrySelect(t, e) ==
    /\ pc[t] = "retry_select"
    /\ \E r \in {GetCurrentProxyOn(State, e, now)} :
          /\ Commit(r.s)
          /\ loc' = [loc EXCEPT ![t].next = r.url, ![t].url = NoUrl,
                                ![t].outcome = "none", ![t].booked = <<>>]
    /\ Goto(t, "retry_request")
    /\ UNCHANGED <<now, calls, HelperFrame>>

\* analysis.py lines 89-106: a response has come
RetryRespond(t, o) ==
    /\ pc[t] = "retry_request"
    /\ o \in {"ok", "refused", "other"}
    /\ \E a \in {loc[t]} :
          /\ Commit(IF o = "other" THEN State
                    ELSE Book(State, a.next, a.weight, o = "refused", now))
          /\ loc' = [loc EXCEPT ![t].url = a.next, ![t].next = NoUrl,
                                ![t].outcome = o,
                                ![t].booked = IF o = "other" \/ a.next = NoUrl THEN <<>>
                                              ELSE IF o = "ok" THEN <<"success">>
                                              ELSE <<"failure">>]
    /\ Goto(t, "idle")
    /\ UNCHANGED <<now, calls, HelperFrame>>

\* analysis.py lines 107-111: the request, or response.json(), has raised
RetryRaise(t, o, e) ==
    /\ pc[t] = "retry_request"
    /\ o \in {"badbody", "raised"}
    /\ \E a \in {loc[t]} :
          /\ Commit(IF a.next # NoUrl /\ a.k < 1
                    THEN RotateProxyOn(State, e, now).s ELSE State)
          /\ loc' = [loc EXCEPT ![t].url = a.next, ![t].next = NoUrl,
                                ![t].outcome = o, ![t].booked = <<>>]
    /\ Goto(t, "retry_sleep")
    /\ UNCHANGED <<now, calls, HelperFrame>>

\* analysis.py line 112, asyncio.sleep(1), and the next turn of the loop or
\* the return of None
RetrySleep(t) ==
    /\ pc[t] = "retry_sleep"
    /\ now' = now + RateSeconds
    /\ loc' = [loc EXCEPT ![t].k = @ + 1]
    /\ Goto(t, IF loc[t].k + 1 < 2 THEN "retry_select" ELSE "idle")
    /\ UNCHANGED <<proxy_list, proxy_stats, proxy_requests, proxy_weights,
                   proxy_errors, last_used, calls, HelperFrame>>

\* a call of make_request_with_proxy(url, weight=weight)
ProxyCall(t, weight) ==
    /\ pc[t] = "idle"
    /\ calls < MaxCalls
    /\ calls' = calls + 1
    /\ Goto(t, "proxy_select")
    /\ loc' = [loc EXCEPT ![t] = [NoLocals EXCEPT !.weight = weight]]
    /\ UNCHANGED <<proxy_list, proxy_stats, proxy_requests, proxy_weights,
                   proxy_errors, last_used, now, HelperFrame>>

\* coingecko.py line 21, up to the await of the proxied or the direct request
ProxySelect(t, e) ==
    /\ pc[t] = "proxy_select"
    /\ \E r \in {GetCurrentProxyOn(State, e, now)} :
          /\ Commit(r.s)
          /\ loc' = [loc EXCEPT ![t].next = r.url]
          /\ Goto(t, IF r.url = NoUrl THEN "direct" ELSE "proxy_request")
    /\ UNCHANGED <<now, calls, HelperFrame>>

\* coingecko.py lines 51-61 (86-91 for the second attempt): a response has
\* come and its body, if read, parses
ProxyRespond(t, o) ==
    /\ pc[t] \in {"proxy_request", "proxy_retry"}
    /\ o \in {"ok", "refused", "other"}
    /\ \E a \in {loc[t]} :
          /\ Commit(Book(State, a.next, a.weight, FALSE, now))
          /\ loc' = [loc EXCEPT ![t].url = a.next, ![t].next = NoUrl,
                                ![t].outcome = o, ![t].booked = <<"success">>]
    /\ Goto(t, "idle")
    /\ UNCHANGED <<now, calls, HelperFrame>>

\* coingecko.py lines 63-76, after the failure is reported: load_proxy_list,
\* rotate_proxy and, if that returns True, get_current_proxy; [s, next] with
\* next the proxy to try, if it is one and another than the one that failed
Recover(s, proxy, e, t) ==
    LET rotated == RotateProxyOn(LoadProxyList(e, s.list, s.bal), e, t)
        chosen == GetCurrentProxyOn(rotated.s, e, t)
    IN IF ~rotated.ok THEN [s |-> rotated.s, next |-> NoUrl]
       ELSE [s |-> chosen.s,
             next |-> IF chosen.url # proxy THEN chosen.url ELSE NoUrl]

\* coingecko.py lines 63-76: the first request, or response.json() after the
\* success was reported at line 51, has raised
ProxyRaise(t, o, e) ==
    /\ pc[t] = "proxy_request"
    /\ o \in {"badbody", "raised"}
    /\ \E a \in {loc[t]} :
        \E s1 \in {IF o = "badbody" THEN Book(State, a.next, a.weight, FALSE, now)
                    ELSE State} :
        \E r \in {Recover(Book(s1, a.next, a.weight, TRUE, now), a.next, e, now)} :
          /\ Commit(r.s)
          /\ loc' = [loc EXCEPT ![t].url = a.next, ![t].next = r.next,
                                ![t].outcome = o,
                                ![t].booked = IF o = "badbody"
                                              THEN <<"success", "failure">>
                                              ELSE <<"failure">>]
          /\ Goto(t, IF r.next = NoUrl THEN "direct" ELSE "proxy_retry")
    /\ UNCHANGED <<now, calls, HelperFrame>>

\* coingecko.py lines 92-94: the second request, or its response.json(), has
\* raised
ProxyRetryRaise(t, o) ==
    /\ pc[t] = "proxy_retry"
    /\ o \in {"badbody", "raised"}
    /\ \E a \in {loc[t]} :
        \E s1 \in {IF o = "badbody" THEN Book(State, a.next, a.weight, FALSE, now)
                    ELSE State} :
          /\ Commit(Book(s1, a.next, a.weight, TRUE, now))
          /\ loc' = [loc EXCEPT ![t].url = a.next, ![t].next = NoUrl,
                                ![t].outcome = o,
                                ![t].booked = IF o = "badbody"
                                              THEN <<"success", "failure">>
                                              ELSE <<"failure">>]
    /\ Goto(t, "direct")
    /\ UNCHANGED <<now, calls, HelperFrame>>

\* coingecko.py lines 24-36 and 96-109: the request without a proxy ends
Direct(t) ==
    /\ pc[t] = "direct"
    /\ Goto(t, "idle")
    /\ UNCHANGED <<proxy_list, proxy_stats, proxy_requests, proxy_weights,
                   proxy_errors, last_used, now, loc, calls, HelperFrame>>

\* the environments a helper may find when its step loads
HelperEnvs == {<<>>, <<EntryA>>, <<EntryA, EntryB>>}

HelperStep(t) ==
    \/ \E w \in Weights : RetryCall(t, w)
    \/ \E e \in (IF proxy_list = <<>> THEN HelperEnvs ELSE {<<>>}) : RetrySelect(t, e)
    \/ \E o \in Outcomes : RetryRespond(t, o)
    \/ \E o \in Outcomes, e \in (IF proxy_list = <<>> THEN HelperEnvs ELSE {<<>>}) :
          RetryRaise(t, o, e)
    \/ RetrySleep(t)
    \/ \E w \in Weights : ProxyCall(t, w)
    \/ \E e \in (IF proxy_list = <<>> THEN HelperEnvs ELSE {<<>>}) : ProxySelect(t, e)
    \/ \E o \in Outcomes : ProxyRespond(t, o)
    \/ \E o \in Outcomes, e \in HelperEnvs : ProxyRaise(t, o, e)
    \/ \E o \in Outcomes : ProxyRetryRaise(t, o)
    \/ Direct(t)

NextHelpers == \E t \in Threads : HelperStep(t)

SpecHelpers == InitThreads /\ [][NextHelpers]_vars

-----------------------------------------------------------------------------
(* What the claims speak of, read from the state after a call *)

Loaded == 0 .. (Len(proxy_list) - 1)

\* requests in the last second at or over the effective request-rate ceiling
OverRate(i) ==
    CountRecent(proxy_requests[i], now) * SafeMarginDen
        >= BINANCE_REQUEST_LIMIT * SafeMarginNum

\* weight in the last minute at or over the effective weight ceiling
OverWeight(i) ==
    SumWeights(proxy_weights[i], now) * SafeMarginDen
        >= BINANCE_WEIGHT_LIMIT * SafeMarginNum

OverCeiling(i) == OverRate(i) \/ OverWeight(i)

Selected == last.op = "select"

Reported == last.op \in {"success", "failure"}

-----------------------------------------------------------------------------
(* C1: on a non-empty pool get_current_proxy returns a proxy of the pool,
   never None, also when every proxy is over both ceilings with more than
   three consecutive errors *)
C1_SelectNeverNone ==
    (Selected /\ (last.list # <<>> \/ proxy_list # <<>>)) =>
        /\ last.url # NoUrl
        /\ last.index \in Loaded
        /\ last.url = proxy_list[last.index + 1]

C1_Witness ==
    /\ Selected
    /\ last.list # <<>>
    /\ \A i \in Loaded : OverRate(i) /\ OverWeight(i) /\ last.errors[i] > ErrorLimit
    /\ last.url # NoUrl

(* C2: get_current_proxy returns no proxy with more than three consecutive
   errors at the call while some proxy has at most three and is under both
   ceilings *)
C2_NoFailingWhileHealthy ==
    (Selected /\ last.index \in Loaded
        /\ \E i \in Loaded : last.errors[i] <= ErrorLimit /\ ~OverCeiling(i))
    => last.errors[last.index] <= ErrorLimit

C2_Witness ==
    /\ Selected
    /\ last.index \in Loaded
    /\ \E i \in Loaded : last.errors[i] > ErrorLimit /\ ~OverCeiling(i)
    /\ last.errors[last.index] <= ErrorLimit

(* C3: get_current_proxy returns a proxy at or over a ceiling only when every
   proxy is at or over a ceiling; with A at the request-rate ceiling and B
   eligible it returns B *)
C3_OverCeilingOnlyIfAll ==
    (Selected /\ last.index \in Loaded /\ OverCeiling(last.index))
    => \A i \in Loaded : OverCeiling(i)

C3_Witness ==
    /\ Selected
    /\ Len(proxy_list) = 2
    /\ OverRate(0) /\ ~OverWeight(0)
    /\ last.index = 1
    /\ ~OverCeiling(1)

(* C4, as stated: the error counter of a proxy is the number of failures
   reported for it since its last reported success, or since the load *)
C4_Original ==
    \A i \in Loaded :
        i = FindIndex(proxy_list, proxy_list[i + 1])
            => proxy_errors[i] = streak[proxy_list[i + 1]]

(* C4, amended: the error counter of a proxy is the number of failures
   reported for it since the latest of its last reported success, the last
   selection that found no eligible proxy and the last load that replaced the
   balancer; it is 0 right after a reported success *)
C4_ErrorsCountFailures ==
    /\ \A i \in Loaded :
           i = FindIndex(proxy_list, proxy_list[i + 1])
               => proxy_errors[i] = fails[proxy_list[i + 1]]
    /\ (last.op = "success" /\ last.index \in Loaded) => proxy_errors[last.index] = 0

C4_Witness ==
    /\ last.op = "failure"
    /\ last.index \in Loaded
    /\ proxy_errors[last.index] > ErrorLimit
    /\ proxy_errors[last.index] = last.errors[last.index] + 1

(* C5: get_proxy_stats changes no error counter, runs no selection, and so
   neither advances the round-robin pointer nor updates a last-used time *)
C5_StatsReadOnly ==
    [][(last'.op = "stats" /\ proxy_list' = proxy_list) =>
          /\ proxy_errors' = proxy_errors
          /\ last_used' = last_used
          /\ \A i \in Loaded : proxy_stats'[i].last_used = proxy_stats[i].last_used]_vars

(* C6: a reload with the same list leaves the windows, the error counters and
   the last-used times of every index as they were *)
C6_SameListKeepsLedgers ==
    [][(last'.op = "load" /\ proxy_list' = proxy_list) =>
          /\ proxy_requests' = proxy_requests
          /\ proxy_weights' = proxy_weights
          /\ proxy_errors' = proxy_errors
          /\ \A i \in Loaded : proxy_stats'[i].last_used = proxy_stats[i].last_used]_vars

(* C7: after a call that changed the list every window is empty and every
   error counter is 0 *)
C7_ChangedListEmptiesLedgers ==
    (last.op = "load" /\ proxy_list # last.list) =>
        \A i \in Idx : /\ proxy_requests[i] = <<>>
                       /\ proxy_weights[i] = <<>>
                       /\ proxy_errors[i] = 0

C7_Witness ==
    /\ last.op = "load"
    /\ proxy_list # last.list
    /\ proxy_list # <<>>
    /\ \E i \in Idx : last.errors[i] > 0
    /\ \A i \in Idx : proxy_errors[i] = 0 /\ proxy_requests[i] = <<>>

(* C10: record_proxy_usage for a URL that is not in the list changes no
   window, no error counter, no lifetime counter and not the pointer *)
C10_UnknownProxyNoOp ==
    [][(last'.op \in {"success", "failure"} /\ last'.index = NoIndex) =>
          UNCHANGED <<proxy_list, proxy_stats, proxy_requests, proxy_weights,
                      proxy_errors, last_used>>]_vars

C10_Witness ==
    /\ Reported
    /\ last.index = NoIndex
    /\ proxy_list # <<>>
    /\ \E i \in Loaded : proxy_requests[i] # <<>> /\ proxy_stats[i].requests > 0

(* C11: record_proxy_usage with error=True adds exactly one to the error
   counter of the proxy and appends nothing to its windows of requests and
   weights; the windows and counters of every other index stay as they were *)
C11_FailureOnlyCounts ==
    [][(last'.op = "failure" /\ last'.index # NoIndex) =>
          /\ proxy_errors' = [proxy_errors EXCEPT ![last'.index] = @ + 1]
          /\ proxy_requests' = proxy_requests
          /\ proxy_weights' = proxy_weights]_vars

C11_Witness ==
    /\ last.op = "failure"
    /\ last.index \in Loaded
    /\ proxy_errors[last.index] = last.errors[last.index] + 1
    /\ proxy_requests[last.index] # <<>>
    /\ \E j \in Loaded : j # last.index /\ proxy_errors[j] > 0 /\ proxy_requests[j] # <<>>

\* the entries of the snapshot that get_proxy_stats returned last
Detailed == last.snapshot.detailed_stats

RECURSIVE SumSent(_, _, _)
\* the weights of the successes of h less than a window old at t, all of them
\* or only those the balancer in use has taken
SumSent(h, t, liveOnly) ==
    IF h = <<>> THEN 0
    ELSE (IF t - Head(h).ts < WindowSeconds /\ (liveOnly => Head(h).live)
          THEN Head(h).weight ELSE 0) + SumSent(Tail(h), t, liveOnly)

(* C12, as stated: the weight in the last minute that get_proxy_stats reports
   for a proxy is the sum of the weights of all successes reported for it in
   the 60 seconds before the call (a URL configured twice is looked at under
   its first index, where its reports are booked) *)
C12_Original ==
    last.op = "stats" =>
        \A i \in DOMAIN Detailed :
            i = FindIndex(proxy_list, Detailed[i].url) =>
                Detailed[i].weight_last_minute = SumSent(sent[Detailed[i].url], now, FALSE)

(* C12, amended: the weight in the last minute that get_proxy_stats reports
   for a proxy is the sum of the weights of the successes reported for it less
   than 60 seconds before the call and since the last load that replaced the
   balancer *)
C12_WeightIsSumOfSuccesses ==
    last.op = "stats" =>
        \A i \in DOMAIN Detailed :
            i = FindIndex(proxy_list, Detailed[i].url) =>
                Detailed[i].weight_last_minute = SumSent(sent[Detailed[i].url], now, TRUE)

C12_Witness ==
    /\ last.op = "stats"
    /\ now >= WindowSeconds
    /\ \E i \in DOMAIN Detailed :
          /\ Detailed[i].weight_last_minute = HeavyWeight
          /\ Detailed[i].total_requests > Detailed[i].requests_last_minute

(* C13: with no proxy configured, get_current_proxy returns None and leaves
   every window, every error counter and the round-robin pointer as they were,
   and get_proxy_stats reports total = 0 and no per-proxy entry *)
C13_EmptyConfiguration ==
    [][/\ (last'.op = "select" /\ proxy_list' = <<>>) =>
             /\ last'.url = NoUrl
             /\ UNCHANGED <<proxy_requests, proxy_weights, proxy_errors, last_used>>
       /\ (last'.op = "stats" /\ proxy_list' = <<>>) =>
             /\ last'.snapshot.total = 0
             /\ last'.snapshot.detailed_stats = <<>>
             /\ last'.snapshot.current_proxy = NoUrl]_vars

C13_Witness ==
    /\ last.op = "stats"
    /\ proxy_list = <<>>
    /\ last.list = <<>>
    /\ last.snapshot.total = 0
    /\ last.snapshot.current_proxy = NoUrl

(* C14: when a caller has reported a failure for a proxy p and then called
   rotate_proxy, the get_current_proxy that follows returns a proxy other
   than p whenever another proxy of the pool is eligible *)
C14_RotateLeavesFailedProxy ==
    (/\ Selected
     /\ last.retry # NoUrl
     /\ \E i \in Loaded : /\ proxy_list[i + 1] # last.retry
                          /\ last.errors[i] <= ErrorLimit
                          /\ ~OverCeiling(i))
    => last.url # last.retry

\* the user name and password in a proxy URL http://user:password@ip:port
Credentials(url) == IF Len(url) = Len(EntryPrivate) THEN {url[1], url[2]} ELSE {}

(* C15: nothing that get_proxy_stats returns holds a user name or a password:
   neither the URL of a per-proxy entry nor the current proxy *)
C15_SnapshotHidesCredentials ==
    last.op = "stats" =>
        /\ Credentials(last.snapshot.current_proxy) = {}
        /\ \A i \in DOMAIN Detailed : Credentials(Detailed[i].url) = {}

(* C16: the error count of a per-proxy entry of get_proxy_stats is the
   lifetime count, the number of failures reported for the proxy since the
   list was loaded, which _proxy_stats keeps; a later success or a selection
   does not lower it *)
C16_SnapshotErrorsAreLifetime ==
    (last.op = "stats" /\ last.list # <<>>) =>
        \A i \in DOMAIN Detailed : Detailed[i].total_errors = proxy_stats[i].errors

\* index i passed all three tests at the call that `last` records
WasEligible(i) == last.errors[i] <= ErrorLimit /\ ~OverCeiling(i)

\* the load score of index i: its request timestamps of the last 60 seconds
\* plus its weight entries of the last 60 seconds
LoadScore(i) ==
    Cardinality({k \in 1 .. Len(proxy_requests[i]) :
                    now - proxy_requests[i][k] < WindowSeconds})
    + Cardinality({k \in 1 .. Len(proxy_weights[i]) :
                    now - proxy_weights[i][k][1] < WindowSeconds})

(* C17: when some proxy is eligible, get_current_proxy returns an eligible
   proxy with the lowest load score, and the one with the lowest index among
   those with that score *)
C17_LeastLoadedLowestIndex ==
    (Selected /\ last.index \in Loaded /\ \E i \in Loaded : WasEligible(i)) =>
        /\ WasEligible(last.index)
        /\ \A j \in Loaded :
               WasEligible(j) =>
                   \/ LoadScore(last.index) < LoadScore(j)
                   \/ LoadScore(last.index) = LoadScore(j) /\ last.index <= j

C17_Witness ==
    /\ Selected
    /\ last.index = 1
    /\ WasEligible(0)
    /\ WasEligible(1)
    /\ LoadScore(1) > 0
    /\ LoadScore(1) < LoadScore(0)

(* C18: when no proxy passes all three tests, get_current_proxy sets every
   error counter to 0 and, if some proxy is under both ceilings, returns one
   that is and leaves the round-robin pointer where it was; a single proxy
   with 4 failures in a row is returned and has 0 errors afterwards *)
C18_ErrorsClearedAndReadmitted ==
    (Selected /\ last.index \in Loaded /\ \A i \in Loaded : ~WasEligible(i)) =>
        /\ \A i \in Idx : proxy_errors[i] = 0
        /\ (\E i \in Loaded : ~OverCeiling(i)) =>
               /\ ~OverCeiling(last.index)
               /\ last_used = last.pointer

C18_Witness ==
    /\ Selected
    /\ Len(proxy_list) = 1
    /\ last.errors[0] = ErrorLimit + 1
    /\ ~OverCeiling(0)
    /\ last.index = 0
    /\ proxy_errors[0] = 0

(* C19: when every proxy is at or over a ceiling, get_current_proxy moves the
   round-robin pointer to (pointer + 1) mod pool size and returns that index;
   a selection that directly follows another returns the index after the one
   the other returned, so n selections in a row return every index once *)
C19_RoundRobinWhenSaturated ==
    (Selected /\ last.index \in Loaded /\ \A i \in Loaded : OverCeiling(i)) =>
        /\ last_used = (last.pointer + 1) % Len(proxy_list)
        /\ last.index = last_used
        /\ last.prev # NoIndex => last.index = (last.prev + 1) % Len(proxy_list)

C19_Witness ==
    /\ Selected
    /\ Len(proxy_list) = 2
    /\ \A i \in Loaded : OverCeiling(i)
    /\ last.prev = 1
    /\ last.index = 0

\* the successes reported for url less than a second before t to the
\* balancer in use
SentInRateWindow(url, t) ==
    Cardinality({k \in 1 .. Len(sent[url]) :
                    sent[url][k].live /\ t - sent[url][k].ts < RateSeconds})

\* the three conditions of eligibility for the proxy url, told from the
\* reports made and the error count: fewer requests in the last second than
\* the request ceiling times the margin, less weight in the last 60 seconds
\* than the weight ceiling times the margin, at most three errors
ThreeConditions(url, errors, t) ==
    /\ SentInRateWindow(url, t) * SafeMarginDen < BINANCE_REQUEST_LIMIT * SafeMarginNum
    /\ SumSent(sent[url], t, TRUE) * SafeMarginDen < BINANCE_WEIGHT_LIMIT * SafeMarginNum
    /\ errors <= ErrorLimit

(* C20: a proxy is reported available exactly when, after pruning, its
   requests of the last second are fewer than the request ceiling times the
   margin, its weight of the last 60 seconds is less than the weight ceiling
   times the margin and it has at most three errors (a URL configured twice
   is looked at under its first index, where its reports are booked) *)
C20_EligibleIffThreeConditions ==
    last.op = "stats" =>
        \A i \in DOMAIN Detailed :
            i = FindIndex(proxy_list, Detailed[i].url) =>
                (Detailed[i].available
                    <=> ThreeConditions(Detailed[i].url, last.errors[i], now))

C20_Witness ==
    /\ last.op = "stats"
    /\ Len(proxy_list) = 2
    /\ last.errors[0] = 0
    /\ SentInRateWindow(proxy_list[1], now) = RateCeiling
    /\ SumSent(sent[proxy_list[1]], now, TRUE) < HeavyWeight
    /\ ~Detailed[0].available
    /\ last.errors[1] = ErrorLimit
    /\ Detailed[1].available

\* no entry of the windows of index i is older than a window at time t
NothingStale(i, t) ==
    /\ \A k \in 1 .. Len(proxy_requests[i]) : t - proxy_requests[i][k] <= WindowSeconds
    /\ \A k \in 1 .. Len(proxy_weights[i]) : t - proxy_weights[i][k][1] <= WindowSeconds

(* C21: the windows of a proxy are pruned before every read and every write,
   so right after get_current_proxy, get_proxy_stats or a success reported by
   record_proxy_usage has read or appended to the windows of an index, they
   hold no entry older than 60 seconds *)
C21_PrunedOnEveryAccess ==
    /\ (last.op \in {"select", "stats"}) => \A i \in Loaded : NothingStale(i, now)
    /\ (last.op = "success" /\ last.index \in Loaded) => NothingStale(last.index, now)

\* the entries of an environment that have two or four fields, in slot order
WellFormed(e) == SelectSeq(e, LAMBDA parts : Len(parts) \in {2, 4})

(* C22: after any load of the registry the loaded proxies carry the contiguous
   indices 0..n-1 in the order in which their entries parsed; an entry whose
   field count is neither 2 nor 4 is skipped without ending the load and
   without taking an index; and the lifetime statistics exist for exactly the
   indices 0..n-1, each holding the URL of its index *)
C22_ContiguousIndices ==
    /\ DOMAIN proxy_stats = Loaded
    /\ \A i \in Loaded : proxy_stats[i].url = proxy_list[i + 1]
    /\ last.loaded =>
          /\ Len(proxy_list) = Len(WellFormed(last.env))
          /\ \A k \in 1 .. Len(proxy_list) :
                proxy_list[k] = ProxyUrl(WellFormed(last.env)[k])

\* a load has skipped a malformed entry and loaded the entry after it
C22_Witness ==
    /\ last.loaded
    /\ last.op = "load"
    /\ \E k \in 1 .. Len(last.env) : last.env[k] = EntryBad
    /\ Len(proxy_list) = 2
    /\ proxy_stats[1].url = ProxyUrl(EntryPrivate)

(* C24: a report made with the proxy reference that get_current_proxy has
   just returned is booked on the very index that get_current_proxy chose: a
   success is appended to the request window of that index, a failure raises
   the error counter of that index; also when the same URL is configured
   under two indices *)
C24_ReportLandsOnChosenIndex ==
    [][(/\ last.op = "select"
        /\ last.url # NoUrl
        /\ last'.op \in {"success", "failure"}
        /\ last'.url = last.url)
       => /\ last'.index = last.index
          /\ last'.op = "success" =>
                proxy_requests'[last.index] = Append(proxy_requests[last.index], now)
          /\ last'.op = "failure" =>
                proxy_errors'[last.index] = proxy_errors[last.index] + 1]_vars

(* C27: whenever get_current_proxy returns a proxy, it is the URL of an index
   in 0..n-1 of the list as it is when the call ends, and while the list is
   not empty the round-robin pointer is in 0..n-1, whatever loads, reloads,
   selections and reports came before *)
C27_IndexAndPointerInRange ==
    /\ (last.op = "select" /\ last.url # NoUrl) =>
          /\ last.index \in Loaded
          /\ proxy_list[last.index + 1] = last.url
    /\ proxy_list # <<>> => last_used \in Loaded

\* the round-robin fallback has moved the pointer to the last index and
\* get_current_proxy has returned the proxy there
C27_Witness ==
    /\ last.op = "select"
    /\ last.url # NoUrl
    /\ Len(proxy_list) = 2
    /\ last.pointer = 0
    /\ last_used = 1
    /\ last.index = 1

\* the window new is the window old, or old without its entries a window old
\* or older at time t
OnlyPruned(old, new, t, pairs) == new = old \/ new = KeepRecent(old, t, pairs)

(* C28: get_current_proxy reserves no quota: it leaves the request and weight
   windows of every proxy as they were but for the entries it prunes, so when
   some proxy was eligible at a get_current_proxy call, a second call that
   follows it with no report and no passage of time between them returns the
   same proxy *)
C28_SelectReservesNothing ==
    [][last'.op = "select" =>
          /\ \A i \in Idx :
                /\ OnlyPruned(proxy_requests[i], proxy_requests'[i], now, FALSE)
                /\ OnlyPruned(proxy_weights[i], proxy_weights'[i], now, TRUE)
          /\ (last.op = "select" /\ \E i \in Loaded : WasEligible(i)) =>
                /\ last'.url = last.url
                /\ last'.index = last.index]_vars

\* two selections in a row have returned index 1, the less loaded of two
\* eligible proxies that never had a failure reported
C28_Witness ==
    /\ Selected
    /\ Len(proxy_list) = 2
    /\ \A i \in Loaded : WasEligible(i) /\ proxy_stats[i].errors = 0
    /\ LoadScore(0) > LoadScore(1)
    /\ last.prev = 1
    /\ last.index = 1

(* C29: when at least one proxy passes all three tests, get_current_proxy and
   rotate_proxy leave the error counter of every proxy and the round-robin
   pointer as they were; a selection, be it made by get_current_proxy, by
   rotate_proxy or by get_proxy_stats, changes an error counter only in a
   call where no proxy passed *)
C29_EligibleKeepsErrorsAndPointer ==
    /\ (last.op \in {"select", "rotate"} /\ \E i \in Loaded : WasEligible(i)) =>
          /\ proxy_errors = last.errors
          /\ last_used = last.pointer
    /\ (last.op \in {"select", "rotate", "stats"} /\ proxy_errors # last.errors) =>
          /\ \A i \in Loaded : ~WasEligible(i)
          /\ \A i \in Idx : proxy_errors[i] = 0

\* rotate_proxy has run with one proxy eligible and the other over the error
\* limit, and has left the counter over the limit and the pointer alone
C29_Witness ==
    /\ last.op = "rotate"
    /\ Len(proxy_list) = 2
    /\ \E i \in Loaded : WasEligible(i)
    /\ \E i \in Loaded : proxy_errors[i] > ErrorLimit
    /\ proxy_errors = last.errors
    /\ last_used = last.pointer

(* C30: the error counter of a proxy that is over 3 comes back to 3 or less
   only by a success reported for that proxy, by a selection that found no
   proxy eligible, or by a load that changes the list; and get_current_proxy
   returns a proxy whose counter is over 3 only in a call where no proxy was
   eligible *)
C30_ReadmittedOnlyByThreeEvents ==
    [][/\ \A i \in Idx :
             (proxy_errors[i] > ErrorLimit /\ proxy_errors'[i] <= ErrorLimit) =>
                 \/ last'.op = "success" /\ last'.index = i
                 \/ /\ last'.op \in {"select", "rotate", "stats"}
                    /\ proxy_list # <<>>
                    /\ Eligible(State, now) = {}
                 \/ last'.op = "load" /\ proxy_list' # proxy_list
       /\ (/\ last'.op = "select"
           /\ last'.index \in Loaded
           /\ proxy_list # <<>>
           /\ proxy_errors[last'.index] > ErrorLimit) => Eligible(State, now) = {}]_vars

\* a load that changed the list has brought the counter of a proxy from over
\* the limit back to 0
C30_Witness ==
    /\ last.op = "load"
    /\ last.list # <<>>
    /\ proxy_list # <<>>
    /\ proxy_list # last.list
    /\ \E i \in Loaded : last.errors[i] > ErrorLimit /\ proxy_errors[i] = 0

-----------------------------------------------------------------------------
(* Lock discipline, under SpecThreads *)

\* thread t is about to read or write the ledger, the pointer or the registry
\* inside get_current_proxy, rotate_proxy, record_proxy_usage or get_proxy_stats
TouchesLedger(t) ==
    \/ pc[t] \in {"select", "rotate", "record", "stats_select"}
    \/ pc[t] = "stats_scan" /\ loc[t].i < Len(loc[t].list)
    \/ pc[t] = "stats_store"

\* thread t is inside load_proxy_list, called on its own
Reloading(t) == pc[t] \in {"load_clear", "load_append"}

\* C8: every read or mutation of the usage ledger, the round-robin pointer and
\* the registry made by selection, reporting, rotation and the stats snapshot
\* happens while the calling thread holds the single lock.
C8_LedgerUnderLock == \A t \in Threads : TouchesLedger(t) => lock = t

\* C9: every registry reload, the one a caller asks for after a failed request
\* included, runs while the reloading thread holds the lock that selection and
\* reporting take.
C9_ReloadUnderLock == \A t \in Threads : Reloading(t) => lock = t

\* thread t is at a `with _proxy_lock:`, that of the function it called or
\* that of the get_current_proxy() which ends get_proxy_stats
AtAcquire(t) ==
    \/ pc[t] = "wait"
    \/ pc[t] = "stats_scan" /\ loc[t].i >= Len(loc[t].list)

\* thread t is inside a `with _proxy_lock:` block
InLockedBody(t) == pc[t] \in {"select", "rotate", "record", "stats_select"}

\* the threads with one environment that is empty and one that is not, and
\* reports for the one proxy configured: what a thread does next depends on
\* the lock and on whether the list is empty, not on which proxies it holds
LockEnvs == {<<>>, <<EntryA>>}
LockUrls == {ProxyUrl(EntryA)}

LockStep(t) == ThreadStepOver(t, LockEnvs, LockUrls)

InitLock == InitWith({Cold}) /\ Len(proxy_list) <= 1

\* every thread that can take a step eventually takes one: the interpreter
\* switches between runnable threads, and a behaviour holds finitely many
\* calls, so a thread that waits for the lock is not overtaken for ever
FairThreads ==
    /\ InitLock
    /\ [][\E t \in Threads : LockStep(t)]_vars
    /\ \A t \in Threads : WF_vars(LockStep(t))

(* C26: no function tries to take _proxy_lock while its thread holds it, the
   lock is held only inside a `with _proxy_lock:` block and is free again when
   the function returns, and however get_current_proxy, record_proxy_usage,
   rotate_proxy, get_proxy_stats and load_proxy_list interleave, every call
   that has begun returns *)
C26_NoDeadlock ==
    /\ [](\A t \in Threads :
             /\ AtAcquire(t) => lock # t
             /\ lock = t <=> InLockedBody(t))
    /\ \A t \in Threads : (pc[t] # "idle") ~> (pc[t] = "idle")

\* one thread waits at the `with _proxy_lock:` of the function it called
\* while the other holds the lock inside the get_current_proxy() that ends
\* get_proxy_stats
C26_Witness ==
    /\ pc["t1"] = "wait"
    /\ lock = "t2"
    /\ pc["t2"] = "stats_select"

\* the entries of a window that are less than a window old at time t
Recent(s, t, pairs) == Len(KeepRecent(s, t, pairs))

\* a step in which load_proxy_list ends, and may replace the balancer
LoadEnds == \E t \in Threads : pc[t] = "load_append" /\ pc'[t] # "load_append"

(* C25: a success that record_proxy_usage has booked is never lost: however
   record_proxy_usage, get_current_proxy and get_proxy_stats interleave, no
   step of theirs takes an entry less than 60 seconds old out of a request or
   weight window *)
C25_SuccessNeverLost ==
    [][~LoadEnds =>
          \A i \in Idx :
              /\ Recent(proxy_requests'[i], now, FALSE) >= Recent(proxy_requests[i], now, FALSE)
              /\ Recent(proxy_weights'[i], now, TRUE) >= Recent(proxy_weights[i], now, TRUE)]_vars

-----------------------------------------------------------------------------
(* The HTTP helpers, under SpecHelpers *)

\* an attempt of coroutine t through a proxy has just ended
AttemptEnded(t) == loc[t].outcome # "none" /\ loc[t].url # NoUrl

(* C23: in both HTTP helpers, an attempt made through a proxy that
   get_current_proxy returned is followed by exactly one record_proxy_usage
   for that proxy: a success if it ended with status 200 and a body, a failure
   if it ended with an exception, a timeout or a status of 400 or more, and
   one report of either kind after any other status *)
C23_OneReportPerAttempt ==
    \A t \in Threads :
        AttemptEnded(t) =>
            IF loc[t].outcome = "ok" THEN loc[t].booked = <<"success">>
            ELSE IF loc[t].outcome = "other"
                 THEN loc[t].booked \in {<<"success">>, <<"failure">>}
                 ELSE loc[t].booked = <<"failure">>

====
